---- MODULE Spec2Model ----
(***************************************************************************)
(* A model of fsps/filters.py: the filter catalog FILTERS, the Filter      *)
(* record with its three lazily loaded properties (msun_ab, msun_vega,     *)
(* lambda_eff), the two module-level table caches MSUN_TABLE and           *)
(* LAMBDA_EFF_TABLE, and find_filter.                                      *)
(*                                                                         *)
(* A Python str is a sequence of one-character strings, so that lower()    *)
(* and the substring test of find_filter are computed, not assumed.  A     *)
(* dict is the sequence of its (key, value) pairs in insertion order.  No  *)
(* statement of the module stores into FILTERS after line 259, so the dict *)
(* is not carried in every state: the state holds how many rows line 259   *)
(* has consumed, and FILTERS is the dict of those rows.                    *)
(* Floating point numbers of the data files are stood for by integers.     *)
(***************************************************************************)
EXTENDS Integers, Sequences, FiniteSets, TLC

VARIABLES
  imported,          \* rows of the catalog list that line 259 has put into
                     \* the dict so far; the dict FILTERS is determined by it
  MSUN_TABLE,        \* the module global of line 16
  LAMBDA_EFF_TABLE,  \* the module global of line 19
  magsun_dat,        \* content of $SPS_HOME/data/magsun.dat
  lambda_eff_dat,    \* content of $SPS_HOME/data/filter_lambda_eff.dat
  loads,             \* probe: calls of np.loadtxt made so far, per file
  stores,            \* probe: assignments made so far to each cache global
  called,            \* probe: the concurrent callers that have made a call
  ret,               \* what the last call of the single-threaded caller gave
  threads            \* the concurrent callers, each inside at most one access

vars == <<imported, MSUN_TABLE, LAMBDA_EFF_TABLE, magsun_dat,
          lambda_eff_dat, loads, stores, called, ret, threads>>

----------------------------------------------------------------------------
(* Bounds of the model.                                                    *)

\* Rows of the largest data file the environment provides.
MaxRows == 2

\* Calls of np.loadtxt per file after which the single-threaded caller makes
\* no further loading access (a file that keeps failing is otherwise loaded
\* without end).
MaxLoads == 2

\* The same for the concurrent callers together.
MaxThreadLoads == 3

----------------------------------------------------------------------------
(* Python str.                                                             *)

UPPER == <<"A","B","C","D","E","F","G","H","I","J","K","L","M",
           "N","O","P","Q","R","S","T","U","V","W","X","Y","Z">>

LOWER == <<"a","b","c","d","e","f","g","h","i","j","k","l","m",
           "n","o","p","q","r","s","t","u","v","w","x","y","z">>

LowerChar(c) ==
  IF \E i \in 1..Len(UPPER) : UPPER[i] = c
    THEN LOWER[CHOOSE i \in 1..Len(UPPER) : UPPER[i] = c]
    ELSE c

\* The sequence f, written out element by element.
Tuple(f) == SubSeq(f, 1, Len(f))

\* s.lower()
lower(s) == Tuple([i \in 1..Len(s) |-> LowerChar(s[i])])

\* A faulty variant of the substring test: k.startswith(b).
containsPrefix(b, k) == Len(b) <= Len(k) /\ SubSeq(k, 1, Len(b)) = b

\* Python's  b in k  for two strings: b occurs in k as a contiguous run.
contains(b, k) ==
  \E i \in 0..(Len(k) - Len(b)) : SubSeq(k, i + 1, i + Len(b)) = b

----------------------------------------------------------------------------
(* The catalog list of lines 68-257: (index, name, fullname).              *)

FILTER_ROWS ==
  <<
     <<1, <<"V">>,
        "Johnson V (from Bessell 1990 via M. Blanton) - this defines V=0 for the Vega system">>,
     <<2, <<"U">>,
        "Johnson U (from Bessell 1990 via M. Blanton)">>,
     <<3, <<"B">>,
        "Johnson B (from Bessell 1990 via M. Blanton)">>,
     <<4, <<"B","u","s","e","r","_","B","2">>,
        "Johnson B (from BC03. This is the B2 filter from Buser)">>,
     <<5, <<"C","o","u","s","i","n","s","_","R">>,
        "Cousins R (from Bessell 1990 via M. Blanton)">>,
     <<6, <<"C","o","u","s","i","n","s","_","I">>,
        "Cousins I (from Bessell 1990 via M. Blanton)">>,
     <<7, <<"C","F","H","T","_","B">>,
        "CFHT B-band (from Blanton's kcorrect)">>,
     <<8, <<"C","F","H","T","_","R">>,
        "CFHT R-band (from Blanton's kcorrect)">>,
     <<9, <<"C","F","H","T","_","I">>,
        "CFHT I-band (from Blanton's kcorrect)">>,
     <<10, <<"2","M","A","S","S","_","J">>,
        "2MASS J filter (total response w/atm)">>,
     <<11, <<"2","M","A","S","S","_","H">>,
        "2MASS H filter (total response w/atm))">>,
     <<12, <<"2","M","A","S","S","_","K","s">>,
        "2MASS Ks filter (total response w/atm)">>,
     <<13, <<"S","D","S","S","_","u">>,
        "SDSS Camera u Response Function, airmass = 1.3 (June 2001)">>,
     <<14, <<"S","D","S","S","_","g">>,
        "SDSS Camera g Response Function, airmass = 1.3 (June 2001)">>,
     <<15, <<"S","D","S","S","_","r">>,
        "SDSS Camera r Response Function, airmass = 1.3 (June 2001)">>,
     <<16, <<"S","D","S","S","_","i">>,
        "SDSS Camera i Response Function, airmass = 1.3 (June 2001)">>,
     <<17, <<"S","D","S","S","_","z">>,
        "SDSS Camera z Response Function, airmass = 1.3 (June 2001)">>,
     <<18, <<"W","F","P","C","2","_","F","2","5","5","W">>,
        "HST WFPC2 F255W (http://acs.pha.jhu.edu/instrument/photometry/)">>,
     <<19, <<"W","F","P","C","2","_","F","3","0","0","W">>,
        "HST WFPC2 F300W (http://acs.pha.jhu.edu/instrument/photometry/)">>,
     <<20, <<"W","F","P","C","2","_","F","3","3","6","W">>,
        "HST WFPC2 F336W (http://acs.pha.jhu.edu/instrument/photometry/)">>,
     <<21, <<"W","F","P","C","2","_","F","4","3","9","W">>,
        "HST WFPC2 F439W (http://acs.pha.jhu.edu/instrument/photometry/)">>,
     <<22, <<"W","F","P","C","2","_","F","4","5","0","W">>,
        "HST WFPC2 F450W (http://acs.pha.jhu.edu/instrument/photometry/)">>,
     <<23, <<"W","F","P","C","2","_","F","5","5","5","W">>,
        "HST WFPC2 F555W (http://acs.pha.jhu.edu/instrument/photometry/)">>,
     <<24, <<"W","F","P","C","2","_","F","6","0","6","W">>,
        "HST WFPC2 F606W (http://acs.pha.jhu.edu/instrument/photometry/)">>,
     <<25, <<"W","F","P","C","2","_","F","8","1","4","W">>,
        "HST WFPC2 F814W (http://acs.pha.jhu.edu/instrument/photometry/)">>,
     <<26, <<"W","F","P","C","2","_","F","8","5","0","L","P">>,
        "HST WFPC2 F850LP (http://acs.pha.jhu.edu/instrument/photometry/)">>,
     <<27, <<"W","F","C","_","A","C","S","_","F","4","3","5","W">>,
        "HST WFC ACS F435W (http://acs.pha.jhu.edu/instrument/photometry/)">>,
     <<28, <<"W","F","C","_","A","C","S","_","F","4","7","5","W">>,
        "HST ACS F475W (http://acs.pha.jhu.edu/instrument/photometry/)">>,
     <<29, <<"W","F","C","_","A","C","S","_","F","5","5","5","W">>,
        "HST ACS F555W (http://acs.pha.jhu.edu/instrument/photometry/">>,
     <<30, <<"W","F","C","_","A","C","S","_","F","6","0","6","W">>,
        "HST WFC ACS F606W (http://acs.pha.jhu.edu/instrument/photometry/)">>,
     <<31, <<"W","F","C","_","A","C","S","_","F","6","2","5","W">>,
        "HST ACS F625W (http://acs.pha.jhu.edu/instrument/photometry/)">>,
     <<32, <<"W","F","C","_","A","C","S","_","F","7","7","5","W">>,
        "HST WFC ACS F775W (http://acs.pha.jhu.edu/instrument/photometry/)">>,
     <<33, <<"W","F","C","_","A","C","S","_","F","8","1","4","W">>,
        "HST WFC ACS F814W (http://acs.pha.jhu.edu/instrument/photometry/)">>,
     <<34, <<"W","F","C","_","A","C","S","_","F","8","5","0","L","P">>,
        "WFC ACS F850LP (http://acs.pha.jhu.edu/instrument/photometry/)">>,
     <<35, <<"W","F","C","3","_","U","V","I","S","_","F","2","1","8","W">>,
        "HST WFC3 UVIS F218W (http://www.stsci.edu/~WFC3/UVIS/SystemThroughput/) Chip #1">>,
     <<36, <<"W","F","C","3","_","U","V","I","S","_","F","2","2","5","W">>,
        "HST WFC3 UVIS F225W (http://www.stsci.edu/~WFC3/UVIS/SystemThroughput/) Chip #1">>,
     <<37, <<"W","F","C","3","_","U","V","I","S","_","F","2","7","5","W">>,
        "HST WFC3 UVIS F275W (http://www.stsci.edu/~WFC3/UVIS/SystemThroughput/) Chip #1">>,
     <<38, <<"W","F","C","3","_","U","V","I","S","_","F","3","3","6","W">>,
        "HST WFC3 UVIS F336W (http://www.stsci.edu/~WFC3/UVIS/SystemThroughput/) Chip #1">>,
     <<39, <<"W","F","C","3","_","U","V","I","S","_","F","3","9","0","W">>,
        "HST WFC3 UVIS F390W (http://www.stsci.edu/~WFC3/UVIS/SystemThroughput/) Chip #1">>,
     <<40, <<"W","F","C","3","_","U","V","I","S","_","F","4","3","8","W">>,
        "HST WFC3 UVIS F438W (http://www.stsci.edu/~WFC3/UVIS/SystemThroughput/) Chip #1">>,
     <<41, <<"W","F","C","3","_","U","V","I","S","_","F","4","7","5","W">>,
        "HST WFC3 UVIS F475W (http://www.stsci.edu/~WFC3/UVIS/SystemThroughput/) Chip #1">>,
     <<42, <<"W","F","C","3","_","U","V","I","S","_","F","5","5","5","W">>,
        "HST WFC3 UVIS F555W (http://www.stsci.edu/~WFC3/UVIS/SystemThroughput/) Chip #1">>,
     <<43, <<"W","F","C","3","_","U","V","I","S","_","F","6","0","6","W">>,
        "HST WFC3 UVIS F606W (http://www.stsci.edu/~WFC3/UVIS/SystemThroughput/) Chip #1">>,
     <<44, <<"W","F","C","3","_","U","V","I","S","_","F","7","7","5","W">>,
        "HST WFC3 UVIS F775W (http://www.stsci.edu/~WFC3/UVIS/SystemThroughput/) Chip #1">>,
     <<45, <<"W","F","C","3","_","U","V","I","S","_","F","8","1","4","W">>,
        "HST WFC3 UVIS F814W (http://www.stsci.edu/~WFC3/UVIS/SystemThroughput/) Chip #1">>,
     <<46, <<"W","F","C","3","_","U","V","I","S","_","F","8","5","0","L","P">>,
        "HST WFC3 UVIS F850LP (http://www.stsci.edu/~WFC3/UVIS/SystemThroughput/) Chip #1">>,
     <<47, <<"W","F","C","3","_","I","R","_","F","0","9","8","M">>,
        "HST WFC3 IR F098M (http://www.stsci.edu/~WFC3/UVIS/SystemThroughput/)">>,
     <<48, <<"W","F","C","3","_","I","R","_","F","1","0","5","W">>,
        "HST WFC3 IR F105W (http://www.stsci.edu/~WFC3/UVIS/SystemThroughput/)">>,
     <<49, <<"W","F","C","3","_","I","R","_","F","1","1","0","W">>,
        "HST WFC3 IR F110W (http://www.stsci.edu/~WFC3/UVIS/SystemThroughput/)">>,
     <<50, <<"W","F","C","3","_","I","R","_","F","1","2","5","W">>,
        "HST WFC3 IR F125W (http://www.stsci.edu/~WFC3/UVIS/SystemThroughput/)">>,
     <<51, <<"W","F","C","3","_","I","R","_","F","1","4","0","W">>,
        "HST WFC3 IR F140W (http://www.stsci.edu/~WFC3/UVIS/SystemThroughput/)">>,
     <<52, <<"W","F","C","3","_","I","R","_","F","1","6","0","W">>,
        "HST WFC3 IR F160W (http://www.stsci.edu/~WFC3/UVIS/SystemThroughput/)">>,
     <<53, <<"I","R","A","C","_","1">>,
        "Spitzer IRAC Channel 1 (3.6um)">>,
     <<54, <<"I","R","A","C","_","2">>,
        "Spitzer IRAC Channel 2 (4.5um)">>,
     <<55, <<"I","R","A","C","_","3">>,
        "Spitzer IRAC Channel 3 (5.8um)">>,
     <<56, <<"I","R","A","C","_","4">>,
        "Spitzer IRAC Channel 4 (8.0um)">>,
     <<57, <<"I","S","A","A","C","_","K","s">>,
        "ISAAC Ks">>,
     <<58, <<"F","O","R","S","_","V">>,
        "FORS V">>,
     <<59, <<"F","O","R","S","_","R">>,
        "FORS R">>,
     <<60, <<"N","I","C","M","O","S","_","F","1","1","0","W">>,
        "HST NICMOS F110W">>,
     <<61, <<"N","I","C","M","O","S","_","F","1","6","0","W">>,
        "HST NICMOS F160W">>,
     <<62, <<"G","A","L","E","X","_","F","U","V">>,
        "GALEX FUV">>,
     <<63, <<"G","A","L","E","X","_","N","U","V">>,
        "GALEX NUV">>,
     <<64, <<"D","E","S","_","g">>,
        "DES g (from Huan Lin, for DES camera)">>,
     <<65, <<"D","E","S","_","r">>,
        "DES r (from Huan Lin, for DES camera)">>,
     <<66, <<"D","E","S","_","i">>,
        "DES i (from Huan Lin, for DES camera)">>,
     <<67, <<"D","E","S","_","z">>,
        "DES z (from Huan Lin, for DES camera)">>,
     <<68, <<"D","E","S","_","Y">>,
        "DES Y (from Huan Lin, for DES camera)">>,
     <<69, <<"W","F","C","A","M","_","Z">>,
        "WFCAM Z (from Hewett et al. 2006, via A. Smith)">>,
     <<70, <<"W","F","C","A","M","_","Y">>,
        "WFCAM Y (from Hewett et al. 2006, via A. Smith)">>,
     <<71, <<"W","F","C","A","M","_","J">>,
        "WFCAM J (from Hewett et al. 2006, via A. Smith)">>,
     <<72, <<"W","F","C","A","M","_","H">>,
        "WFCAM H (from Hewett et al. 2006, via A. Smith)">>,
     <<73, <<"W","F","C","A","M","_","K">>,
        "WFCAM K (from Hewett et al. 2006, via A. Smith)">>,
     <<74, <<"S","t","e","i","d","e","l","_","U","n">>,
        "Steidel Un (via A. Shapley; see Steidel et al. 2003)">>,
     <<75, <<"S","t","e","i","d","e","l","_","G">>,
        "Steidel G  (via A. Shapley; see Steidel et al. 2003)">>,
     <<76, <<"S","t","e","i","d","e","l","_","R","s">>,
        "Steidel Rs (via A. Shapley; see Steidel et al. 2003)">>,
     <<77, <<"S","t","e","i","d","e","l","_","I">>,
        "Steidel I  (via A. Shapley; see Steidel et al. 2003)">>,
     <<78, <<"M","e","g","a","C","a","m","_","u">>,
        "CFHT MegaCam u* (http://cadcwww.dao.nrc.ca/megapipe/docs/filters.html, Dec 2010)">>,
     <<79, <<"M","e","g","a","C","a","m","_","g">>,
        "CFHT MegaCam g' (http://cadcwww.dao.nrc.ca/megapipe/docs/filters.html)">>,
     <<80, <<"M","e","g","a","C","a","m","_","r">>,
        "CFHT MegaCam r' (http://cadcwww.dao.nrc.ca/megapipe/docs/filters.html)">>,
     <<81, <<"M","e","g","a","C","a","m","_","i">>,
        "CFHT MegaCam i' (http://cadcwww.dao.nrc.ca/megapipe/docs/filters.html)">>,
     <<82, <<"M","e","g","a","C","a","m","_","z">>,
        "CFHT MegaCam z' (http://cadcwww.dao.nrc.ca/megapipe/docs/filters.html)">>,
     <<83, <<"W","I","S","E","_","W","1">>,
        "3.4um WISE W1 (http://www.astro.ucla.edu/~wright/WISE/passbands.html)">>,
     <<84, <<"W","I","S","E","_","W","2">>,
        "4.6um WISE W2 (http://www.astro.ucla.edu/~wright/WISE/passbands.html)">>,
     <<85, <<"W","I","S","E","_","W","3">>,
        "12um WISE W3 (http://www.astro.ucla.edu/~wright/WISE/passbands.html)">>,
     <<86, <<"W","I","S","E","_","W","4">>,
        "22um WISE W4 22um (http://www.astro.ucla.edu/~wright/WISE/passbands.html)">>,
     <<87, <<"U","V","O","T","_","W","2">>,
        "UVOT W2 (from Erik Hoversten, 2011)">>,
     <<88, <<"U","V","O","T","_","M","2">>,
        "UVOT M2 (from Erik Hoversten, 2011)">>,
     <<89, <<"U","V","O","T","_","W","1">>,
        "UVOT W1 (from Erik Hoversten, 2011)">>,
     <<90, <<"M","I","P","S","_","2","4">>,
        "Spitzer MIPS 24um">>,
     <<91, <<"M","I","P","S","_","7","0">>,
        "Spitzer MIPS 70um">>,
     <<92, <<"M","I","P","S","_","1","6","0">>,
        "Spitzer MIPS 160um">>,
     <<93, <<"S","C","U","B","A","_","4","5","0","W","B">>,
        "JCMT SCUBA 450WB (www.jach.hawaii.edu/JCMT/continuum/background/background.html)">>,
     <<94, <<"S","C","U","B","A","_","8","5","0","W","B">>,
        "JCMT SCUBA 850WB">>,
     <<95, <<"P","A","C","S","_","7","0">>,
        "Herschel PACS 70um">>,
     <<96, <<"P","A","C","S","_","1","0","0">>,
        "Herschel PACS 100um">>,
     <<97, <<"P","A","C","S","_","1","6","0">>,
        "Herschel PACS 160um">>,
     <<98, <<"S","P","I","R","E","_","2","5","0">>,
        "Herschel SPIRE 250um">>,
     <<99, <<"S","P","I","R","E","_","3","5","0">>,
        "Herschel SPIRE 350um">>,
     <<100, <<"S","P","I","R","E","_","5","0","0">>,
        "Herschel SPIRE 500um">>,
     <<101, <<"I","R","A","S","_","1","2">>,
        "IRAS 12um">>,
     <<102, <<"I","R","A","S","_","2","5">>,
        "IRAS 25um">>,
     <<103, <<"I","R","A","S","_","6","0">>,
        "IRAS 60um">>,
     <<104, <<"I","R","A","S","_","1","0","0">>,
        "IRAS 100um">>,
     <<105, <<"B","e","s","s","e","l","l","_","L">>,
        "Bessell & Brett (1988) L band">>,
     <<106, <<"B","e","s","s","e","l","l","_","L","P">>,
        "Bessell & Brett (1988) L' band">>,
     <<107, <<"B","e","s","s","e","l","l","_","M">>,
        "Bessell & Brett (1988) M band">>,
     <<108, <<"S","t","r","o","m","g","r","e","n","_","u">>,
        "Stromgren u (Bessell 2011)">>,
     <<109, <<"S","t","r","o","m","g","r","e","n","_","v">>,
        "Stromgren v (Bessell 2011)">>,
     <<110, <<"S","t","r","o","m","g","r","e","n","_","b">>,
        "Stromgren b (Bessell 2011)">>,
     <<111, <<"S","t","r","o","m","g","r","e","n","_","y">>,
        "Stromgren y (Bessell 2011)">>,
     <<112, <<"1","5","0","0","A">>,
        "Idealized 1500A bandpass with 15% bandwidth, FWHM = 225A from M. Dickinson">>,
     <<113, <<"2","3","0","0","A">>,
        "Idealized 2300A bandpass with 15% bandwidth, FWHM = 345A from M. Dickinson">>,
     <<114, <<"2","8","0","0","A">>,
        "Idealized 2800A bandpass with 15% bandwidth, FWHM = 420A from M. Dickinson">>,
     <<115, <<"J","W","S","T","_","F","0","7","0","W">>,
        "(http://www.stsci.edu/jwst/instruments/nircam/instrumentdesign/filters/)">>,
     <<116, <<"J","W","S","T","_","F","0","9","0","W">>,
        "(http://www.stsci.edu/jwst/instruments/nircam/instrumentdesign/filters/)">>,
     <<117, <<"J","W","S","T","_","F","1","1","5","W">>,
        "(http://www.stsci.edu/jwst/instruments/nircam/instrumentdesign/filters/)">>,
     <<118, <<"J","W","S","T","_","F","1","5","0","W">>,
        "(http://www.stsci.edu/jwst/instruments/nircam/instrumentdesign/filters/)">>,
     <<119, <<"J","W","S","T","_","F","2","0","0","W">>,
        "(http://www.stsci.edu/jwst/instruments/nircam/instrumentdesign/filters/)">>,
     <<120, <<"J","W","S","T","_","F","2","7","7","W">>,
        "(http://www.stsci.edu/jwst/instruments/nircam/instrumentdesign/filters/)">>,
     <<121, <<"J","W","S","T","_","F","3","5","6","W">>,
        "(http://www.stsci.edu/jwst/instruments/nircam/instrumentdesign/filters/)">>,
     <<122, <<"J","W","S","T","_","F","4","4","4","W">>,
        "(http://www.stsci.edu/jwst/instruments/nircam/instrumentdesign/filters/)">>
  >>

----------------------------------------------------------------------------
(* class Filter.                                                           *)

\* A faulty variant of __init__: the index is kept one-based.
FilterKeepIndex(index, name, fullname) ==
  [index |-> index, name |-> lower(name), fullname |-> fullname]

\* Filter.__init__
Filter(index, name, fullname) ==
  [index |-> index - 1, name |-> lower(name), fullname |-> fullname]

----------------------------------------------------------------------------
(* dict: the sequence of <<key, value>> pairs in insertion order.          *)

\* d.keys(), in iteration order
keys(d) == Tuple([i \in 1..Len(d) |-> d[i][1]])

\* A faulty variant of line 259: the key keeps the case of the name.
ImportPairKeepCase(f) == <<f[2], Filter(f[1], f[2], f[3])>>

\* One element of the list comprehension of line 259.
ImportPair(f) == <<lower(f[2]), Filter(f[1], f[2], f[3])>>

\* dict(pairs): each key stands where it was first stored and holds the value
\* stored last, which is what storing the pairs one by one gives (a dict
\* iterates in insertion order).
dict(pairs) ==
  LET first == SelectSeq([i \in 1..Len(pairs) |-> i],
                         LAMBDA i : \A j \in 1..(i - 1) :
                                      pairs[j][1] # pairs[i][1])
      last(k) == CHOOSE i \in 1..Len(pairs) :
                   /\ pairs[i][1] = k
                   /\ \A j \in (i + 1)..Len(pairs) : pairs[j][1] # k
  IN Tuple([n \in 1..Len(first) |->
              <<pairs[first[n]][1], pairs[last(pairs[first[n]][1])][2]>>])

ImportedPairs ==
  Tuple([i \in 1..Len(FILTER_ROWS) |-> ImportPair(FILTER_ROWS[i])])

\* FILTERS as line 259 leaves it.
ImportedFILTERS == dict(ImportedPairs)

\* The module global FILTERS while and after line 259 runs.
FILTERS ==
  IF imported = Len(FILTER_ROWS) THEN ImportedFILTERS
  ELSE dict(SubSeq(ImportedPairs, 1, imported))

----------------------------------------------------------------------------
(* Python values: None, the exceptions an access can end in, a float.      *)

None == [kind |-> "None"]

IOError == [kind |-> "IOError"]        \* the file is missing or unreadable
ValueError == [kind |-> "ValueError"]  \* the file is no numeric table
IndexError == [kind |-> "IndexError"]  \* an index out of the array's bounds
TypeError == [kind |-> "TypeError"]    \* None[i, j]

IsError(x) ==
  x.kind \in {"IOError", "ValueError", "IndexError", "TypeError"}

\* float(x) of a number read from an array; an exception passes through.
float(x) == IF IsError(x) THEN x ELSE [kind |-> "float", v |-> x.v]

----------------------------------------------------------------------------
(* The two data files under $SPS_HOME/data and np.loadtxt.                 *)

Tables == {"msun", "lambda_eff"}

Missing == [kind |-> "missing"]

Text(rows) == [kind |-> "text", rows |-> rows]

\* Columns of a well-formed file: magsun.dat holds (id, AB, Vega),
\* filter_lambda_eff.dat holds (id, wavelength).
Columns(t) == IF t = "msun" THEN 3 ELSE 2

\* The number standing in row r, column c of the n-row table of file t (r and
\* c count from 1 here; Python counts them from 0).  No two places of any two
\* tables hold the same number.
Cell(t, n, r, c) ==
  (IF t = "msun" THEN 1000 ELSE 2000) + n * 100 + r * 10 + c

TableRows(t, n) ==
  [r \in 1..n |-> [c \in 1..Columns(t) |-> Cell(t, n, r, c)]]

\* Rows of unequal length: not a table.
Ragged == << <<1, 2, 3>>, <<4, 5>> >>

\* The contents the environment may give file t: missing, malformed, or a
\* well-formed table of 1..MaxRows rows.
FileContents(t) ==
  {Missing, Text(Ragged)} \cup {Text(TableRows(t, n)) : n \in 1..MaxRows}

ndarray(ndim, data) == [kind |-> "ndarray", ndim |-> ndim, data |-> data]

\* np.loadtxt(path): IOError for a missing file, ValueError for rows of
\* unequal length; otherwise the array of the rows, squeezed: no row, one row
\* or one column give a one-dimensional array.
loadtxt(file) ==
  IF file.kind = "missing" THEN IOError
  ELSE LET rows == file.rows
           n == Len(rows)
       IN IF \E i, j \in 1..n : Len(rows[i]) # Len(rows[j]) THEN ValueError
          ELSE IF n = 0 THEN ndarray(1, <<>>)
          ELSE IF n = 1 THEN ndarray(1, rows[1])
          ELSE IF Len(rows[1]) = 1
                 THEN ndarray(1, [i \in 1..n |-> rows[i][1]])
          ELSE ndarray(2, rows)

\* An index i into an axis of length n, as numpy resolves it: -n..-1 count
\* from the end.
InBounds(i, n) == -n <= i /\ i < n

Position(i, n) == (IF i < 0 THEN i + n ELSE i) + 1

\* A faulty variant of indexing: a row index beyond the table is clamped to
\* its last row instead of raising.
getitemClamped(a, i, j) ==
  IF a.kind = "None" THEN TypeError
  ELSE IF a.ndim < 2 THEN IndexError
  ELSE LET n == Len(a.data)
           m == Len(a.data[1])
           r == IF i >= n THEN n ELSE IF i < -n THEN 1 ELSE Position(i, n)
       IN IF ~InBounds(j, m) THEN IndexError
          ELSE [kind |-> "number", v |-> a.data[r][Position(j, m)]]

\* a[i, j]
getitem(a, i, j) ==
  IF a.kind = "None" THEN TypeError
  ELSE IF a.ndim < 2 THEN IndexError
  ELSE LET n == Len(a.data)
           m == Len(a.data[1])
       IN IF ~InBounds(i, n) \/ ~InBounds(j, m) THEN IndexError
          ELSE [kind |-> "number", v |-> a.data[Position(i, n)][Position(j, m)]]

----------------------------------------------------------------------------
(* The three properties of Filter, lines 35-65.                            *)

Properties == {"msun_ab", "msun_vega", "lambda_eff"}

\* The table a property reads.
TableOf(p) == IF p = "lambda_eff" THEN "lambda_eff" ELSE "msun"

\* The column a property reads (lines 41, 48, 55).
ColumnOf(p) == IF p = "msun_vega" THEN 2 ELSE 1

CacheOf(t) == IF t = "msun" THEN MSUN_TABLE ELSE LAMBDA_EFF_TABLE

FileOf(t) == IF t = "msun" THEN magsun_dat ELSE lambda_eff_dat

\* A faulty variant of the loaders: both assign to MSUN_TABLE.
SetCacheMsunOnly(t, v) == MSUN_TABLE' = v /\ UNCHANGED LAMBDA_EFF_TABLE

\* global X; X = v  for the cache of table t: the other global is untouched.
SetCache(t, v) ==
  IF t = "msun"
    THEN MSUN_TABLE' = v /\ UNCHANGED LAMBDA_EFF_TABLE
    ELSE LAMBDA_EFF_TABLE' = v /\ UNCHANGED MSUN_TABLE

\* Faulty variants of the guard: load on every access, or on none.
NeedsLoadAlways(cache) == TRUE

NeedsLoadNever(cache) == FALSE

\* The guard of lines 39, 46, 53:  if X is None
NeedsLoad(cache) == cache = None

\* A faulty variant of the loaders: a failed load leaves an empty array in
\* the cache.
StoreLoadedOrEmpty(cache, r) == IF IsError(r) THEN ndarray(1, <<>>) ELSE r

\* The global after  X = np.loadtxt(...)  (lines 59, 64) where loadtxt gave
\* r: an exception leaves before the assignment.
StoreLoaded(cache, r) == IF IsError(r) THEN cache ELSE r

\* The Filter objects whose properties the single-threaded caller reads: the
\* catalog's filters up to one row past the largest file, its last filter,
\* and two filters constructed with a declared index below 1.
Callers ==
  {FILTERS[i][2] : i \in {i \in 1..Len(FILTERS) :
                            i <= MaxRows + 1 \/ i = Len(FILTERS)}}
    \cup {Filter(d, <<"X">>, "ad hoc") : d \in {0, -MaxRows}}

\* The Filter objects the concurrent callers read: the catalog's first and
\* last filter.
ThreadCallers == {FILTERS[i][2] : i \in {1, Len(FILTERS)}}

----------------------------------------------------------------------------
(* find_filter, lines 262-283.                                             *)

\* A faulty variant of find_filter: band is not lowercased.
find_filter_keep_case(band) ==
  LET ks == keys(FILTERS)
  IN SelectSeq(ks, LAMBDA k : contains(band, k))

\* find_filter(band): the keys k, in the order the dict gives them, for which
\* b in k (the loop of lines 279-283).
find_filter(band) ==
  LET b == lower(band)
      ks == keys(FILTERS)
  IN SelectSeq(ks, LAMBDA k : contains(b, k))

\* The letters the generated inputs of find_filter are made of.
BandLetters == {"F", "f", "5", "w"}

\* Longest generated input of find_filter.
MaxBandLen == 3

RECURSIVE Strings(_)
\* All strings over BandLetters of length at most n.
Strings(n) ==
  IF n = 0 THEN {<<>>}
  ELSE Strings(n - 1)
         \cup {Append(s, c) : s \in Strings(n - 1), c \in BandLetters}

F555W == <<"F","5","5","5","W">>

\* Named inputs: the docstring's example in three spellings, a fragment no key
\* contains, whole keys, and a string longer than every key.
NamedBands ==
  { <<>>, F555W, lower(F555W), <<"f","5","5","5","W">>,
    <<"n","o","n","e","x","i","s","t","e","n","t","_","x","y","z">>,
    <<"V">>, <<"S","D","S","S">>, <<"2","M","A","S","S","_","j">>,
    <<"w","f","c","3","_","u","v","i","s","_","f","8","5","0","l","p","x">> }

Bands == NamedBands \cup Strings(MaxBandLen)

\* The input of the calls of find_filter made between property accesses.
WFC3_UVIS_F555W ==
  <<"W","F","C","3","_","U","V","I","S","_","F","5","5","5","W">>

----------------------------------------------------------------------------
(* The states.                                                             *)

NoCall == [op |-> "none"]

Idle == [pc |-> "idle"]

\* The concurrent callers.
Threads == {"a", "b"}

\* Module import up to line 258: the two caches are None, the catalog is
\* still the list.  The data files are not there: neither the import nor
\* find_filter reads them.
InitImport ==
  /\ imported = 0
  /\ MSUN_TABLE = None
  /\ LAMBDA_EFF_TABLE = None
  /\ magsun_dat = Missing
  /\ lambda_eff_dat = Missing
  /\ loads = [t \in Tables |-> 0]
  /\ stores = [t \in Tables |-> 0]
  /\ called = {}
  /\ ret = NoCall
  /\ threads = [t \in Threads |-> Idle]

\* The module once imported.
Init ==
  /\ imported = Len(FILTER_ROWS)
  /\ MSUN_TABLE = None
  /\ LAMBDA_EFF_TABLE = None
  /\ magsun_dat \in FileContents("msun")
  /\ lambda_eff_dat \in FileContents("lambda_eff")
  /\ loads = [t \in Tables |-> 0]
  /\ stores = [t \in Tables |-> 0]
  /\ called = {}
  /\ ret = NoCall
  /\ threads = [t \in Threads |-> Idle]

----------------------------------------------------------------------------
(* Module import, line 259: one row of the list goes into the dict.        *)

ImportRow ==
  /\ imported < Len(FILTER_ROWS)
  /\ imported' = imported + 1
  /\ UNCHANGED <<MSUN_TABLE, LAMBDA_EFF_TABLE, magsun_dat, lambda_eff_dat,
                 loads, stores, called, ret, threads>>

----------------------------------------------------------------------------
(* The single-threaded caller: each call runs to its end in one step.      *)

\* self.<p> for one of the three properties: the guard, the load with its
\* assignment when the guard asks for it, and the indexing of the cache.
GetProperty(self, p) ==
  LET t == TableOf(p)
      need == NeedsLoad(CacheOf(t))
      r == loadtxt(FileOf(t))
      after == IF need THEN StoreLoaded(CacheOf(t), r) ELSE CacheOf(t)
  IN /\ imported = Len(FILTER_ROWS)
     /\ need => loads[t] < MaxLoads
     /\ loads' = IF need THEN [loads EXCEPT ![t] = @ + 1] ELSE loads
     /\ stores' = IF need /\ ~IsError(r) THEN [stores EXCEPT ![t] = @ + 1]
                  ELSE stores
     /\ SetCache(t, after)
     /\ ret' = [op |-> p, self |-> self,
                out |-> IF need /\ IsError(r) THEN r
                        ELSE float(getitem(after, self.index, ColumnOf(p)))]
     /\ UNCHANGED <<imported, magsun_dat, lambda_eff_dat, called, threads>>

msun_ab(self) == GetProperty(self, "msun_ab")

msun_vega(self) == GetProperty(self, "msun_vega")

lambda_eff(self) == GetProperty(self, "lambda_eff")

\* A call of find_filter(band).
FindFilter(band) ==
  /\ imported = Len(FILTER_ROWS)
  /\ ret' = [op |-> "find_filter", band |-> band, out |-> find_filter(band)]
  /\ UNCHANGED <<imported, MSUN_TABLE, LAMBDA_EFF_TABLE, magsun_dat,
                 lambda_eff_dat, loads, stores, called, threads>>

\* The environment replaces a data file.
WriteMagsun(c) ==
  /\ c # magsun_dat
  /\ magsun_dat' = c
  /\ UNCHANGED <<imported, MSUN_TABLE, LAMBDA_EFF_TABLE,
                 lambda_eff_dat, loads, stores, called, ret, threads>>

WriteLambdaEff(c) ==
  /\ c # lambda_eff_dat
  /\ lambda_eff_dat' = c
  /\ UNCHANGED <<imported, MSUN_TABLE, LAMBDA_EFF_TABLE,
                 magsun_dat, loads, stores, called, ret, threads>>

Next ==
  \/ \E self \in Callers : msun_ab(self)
  \/ \E self \in Callers : msun_vega(self)
  \/ \E self \in Callers : lambda_eff(self)
  \/ \E band \in {WFC3_UVIS_F555W} : FindFilter(band)
  \/ \E c \in FileContents("msun") : WriteMagsun(c)
  \/ \E c \in FileContents("lambda_eff") : WriteLambdaEff(c)

Spec == Init /\ [][Next]_vars

\* Import of the module followed by calls of find_filter.
NextCatalog ==
  \/ ImportRow
  \/ \E band \in Bands : FindFilter(band)

SpecCatalog == InitImport /\ [][NextCatalog]_vars

----------------------------------------------------------------------------
(* Concurrent callers: an access is the sequence of its reads and writes   *)
(* of the shared global, and another caller may run between any two.  The  *)
(* data files are not replaced while these callers run.                    *)

\* Thread t calls self.<p> and evaluates the guard of lines 39, 46, 53.
Call(t, self, p) ==
  /\ imported = Len(FILTER_ROWS)
  /\ threads[t].pc = "idle"
  /\ threads' = [threads EXCEPT ![t] =
       [pc |-> IF NeedsLoad(CacheOf(TableOf(p))) THEN "load" ELSE "index",
        p |-> p, self |-> self]]
  /\ called' = called \cup {t}
  /\ UNCHANGED <<imported, MSUN_TABLE, LAMBDA_EFF_TABLE, magsun_dat,
                 lambda_eff_dat, loads, stores, ret>>

\* np.loadtxt reads the file (lines 59-60, 64-65); an exception ends the
\* access.
Load(t) ==
  LET me == threads[t]
      tab == TableOf(me.p)
      r == loadtxt(FileOf(tab))
  IN /\ me.pc = "load"
     /\ loads[tab] < MaxThreadLoads
     /\ loads' = [loads EXCEPT ![tab] = @ + 1]
     /\ threads' = [threads EXCEPT ![t] =
          IF IsError(r)
            THEN [pc |-> "done", p |-> me.p, self |-> me.self, out |-> r]
            ELSE [pc |-> "store", p |-> me.p, self |-> me.self, local |-> r]]
     /\ UNCHANGED <<imported, MSUN_TABLE, LAMBDA_EFF_TABLE, magsun_dat,
                    lambda_eff_dat, stores, called, ret>>

\* The assignment of the loaded array to the global (lines 59, 64).
Store(t) ==
  LET me == threads[t]
      tab == TableOf(me.p)
  IN /\ me.pc = "store"
     /\ SetCache(tab, StoreLoaded(CacheOf(tab), me.local))
     /\ stores' = [stores EXCEPT ![tab] = @ + 1]
     /\ threads' = [threads EXCEPT ![t] =
          [pc |-> "index", p |-> me.p, self |-> me.self]]
     /\ UNCHANGED <<imported, magsun_dat, lambda_eff_dat, loads, called,
                    ret>>

\* The return statement reads the global and indexes it (lines 41, 48, 55).
Index(t) ==
  LET me == threads[t]
  IN /\ me.pc = "index"
     /\ threads' = [threads EXCEPT ![t] =
          [pc |-> "done", p |-> me.p, self |-> me.self,
           out |-> float(getitem(CacheOf(TableOf(me.p)), me.self.index,
                                 ColumnOf(me.p)))]]
     /\ UNCHANGED <<imported, MSUN_TABLE, LAMBDA_EFF_TABLE, magsun_dat,
                    lambda_eff_dat, loads, stores, called, ret>>

\* The caller has its value or its exception and is free to call again.
Return(t) ==
  /\ threads[t].pc = "done"
  /\ threads' = [threads EXCEPT ![t] = Idle]
  /\ UNCHANGED <<imported, MSUN_TABLE, LAMBDA_EFF_TABLE, magsun_dat,
                 lambda_eff_dat, loads, stores, called, ret>>

NextThreads ==
  \/ \E t \in Threads, self \in ThreadCallers, p \in Properties :
       Call(t, self, p)
  \/ \E t \in Threads : Load(t)
  \/ \E t \in Threads : Store(t)
  \/ \E t \in Threads : Index(t)
  \/ \E t \in Threads : Return(t)

\* The files stay as the process found them.
SpecThreads == Init /\ [][NextThreads]_vars

----------------------------------------------------------------------------
(* The claims.                                                             *)

\* The step is a call of a property that reads table t: every step that
\* leaves both files alone is a call, and a call records its name.
Access(t) ==
  /\ magsun_dat' = magsun_dat
  /\ lambda_eff_dat' = lambda_eff_dat
  /\ ret'.op \in Properties
  /\ TableOf(ret'.op) = t

\* C1 (Spec): in a single-threaded process, the access that finds a cache
\* None and whose load succeeds makes exactly one call of np.loadtxt and leaves
\* the cache holding what it read; a cache that is not None is never loaded
\* again, never changes and never goes back to None, whichever filter and
\* property is read and whatever becomes of the file.
C1_LoadedOnceAndKept ==
  [][ \A t \in Tables :
        /\ CacheOf(t) # None =>
             /\ CacheOf(t)' = CacheOf(t)
             /\ loads'[t] = loads[t]
             /\ stores'[t] = stores[t]
        /\ (Access(t) /\ CacheOf(t) = None /\ ~IsError(loadtxt(FileOf(t)))) =>
             /\ CacheOf(t)' = loadtxt(FileOf(t))
             /\ loads'[t] = loads[t] + 1
             /\ stores'[t] = stores[t] + 1
        /\ CacheOf(t)' # CacheOf(t) => Access(t) /\ CacheOf(t) = None
    ]_vars

\* A second property of the solar-magnitude table has been read from the
\* cache after the file was replaced: one load was made in all.
C1_Witness ==
  /\ MSUN_TABLE # None
  /\ loadtxt(magsun_dat) # MSUN_TABLE
  /\ loads["msun"] = 1
  /\ ret.op = "msun_vega"
  /\ ret.out.kind = "float"

\* Position in the catalog list of the row a Filter object was made from
\* (0 if none).
RowOf(self) ==
  IF \E i \in 1..Len(FILTER_ROWS) : FILTERS[i][2] = self
    THEN CHOOSE i \in 1..Len(FILTER_ROWS) : FILTERS[i][2] = self
    ELSE 0

\* The loaded table a is two-dimensional, holds the column a property reads
\* and has a row for the zero-based index idx.
ValidRow(a, idx, col) ==
  /\ a # None
  /\ a.ndim = 2
  /\ col < Len(a.data[1])
  /\ 0 <= idx /\ idx < Len(a.data)

DeclaredIndex(k) ==
  FILTER_ROWS[CHOOSE i \in 1..Len(FILTERS) : FILTERS[i][1] = k][1]

\* C3 (SpecCatalog): find_filter(band) returns the catalog keys that contain
\* lowercase(band), each once, in ascending order of declared index; the
\* empty string gives every key, a fragment no key contains gives the empty
\* list.
C3_FindFilterExact ==
  ret.op = "find_filter" =>
    LET b == lower(ret.band)
        r == ret.out
        ks == keys(FILTERS)
    IN /\ \A n \in 1..Len(r) :
            \E i \in 1..Len(ks) : ks[i] = r[n] /\ contains(b, ks[i])
       /\ \A i \in 1..Len(ks) :
            contains(b, ks[i]) => \E n \in 1..Len(r) : r[n] = ks[i]
       /\ \A n \in 1..(Len(r) - 1) :
            DeclaredIndex(r[n]) < DeclaredIndex(r[n + 1])
       /\ ret.band = <<>> => Len(r) = Len(FILTER_ROWS)
       /\ (\A i \in 1..Len(ks) : ~contains(b, ks[i])) => r = <<>>

\* find_filter("SDSS") has returned the five SDSS keys.
C3_Witness ==
  /\ ret.op = "find_filter"
  /\ ret.band = <<"S","D","S","S">>
  /\ Len(ret.out) = 5
  /\ ret.out[1] = <<"s","d","s","s","_","u">>

wfpc2_f555w == <<"w","f","p","c","2","_","f","5","5","5","w">>

wfc_acs_f555w == <<"w","f","c","_","a","c","s","_","f","5","5","5","w">>

wfc3_uvis_f555w == lower(WFC3_UVIS_F555W)

C5_CatalogImage ==
  /\ Len(FILTERS) = imported
  /\ imported = Len(FILTER_ROWS) =>
       /\ Len(FILTERS) = 122
       /\ \A i \in 1..Len(FILTER_ROWS) :
            FILTERS[i] =
              << lower(FILTER_ROWS[i][2]),
                 [index |-> FILTER_ROWS[i][1] - 1,
                  name |-> lower(FILTER_ROWS[i][2]),
                  fullname |-> FILTER_ROWS[i][3]] >>
       /\ \A i, j \in 1..Len(FILTERS) :
            i # j => FILTERS[i][1] # FILTERS[j][1]

\* The import is over and the last row, JWST_F444W, is in the dict.
C5_Witness ==
  /\ imported = Len(FILTER_ROWS)
  /\ FILTERS[122][1] = <<"j","w","s","t","_","f","4","4","4","w">>
  /\ FILTERS[122][2].index = 121

\* C6 (Spec): an access that finds a cache None and whose load fails
\* returns the error of np.loadtxt, after one attempt; the cache stays None,
\* the other cache is untouched, and so the next access of the table calls
\* np.loadtxt again.
C6_FailedLoadLeavesNone ==
  [][ \A t \in Tables :
        /\ (Access(t) /\ CacheOf(t) = None /\ IsError(loadtxt(FileOf(t)))) =>
             /\ ret'.out = loadtxt(FileOf(t))
             /\ CacheOf(t)' = None
             /\ loads'[t] = loads[t] + 1
             /\ stores' = stores
             /\ \A u \in Tables \ {t} : CacheOf(u)' = CacheOf(u)
        /\ (Access(t) /\ CacheOf(t) = None) => loads'[t] = loads[t] + 1
    ]_vars

\* Two accesses of the solar-magnitude table have each tried to load the
\* missing file, and the cache is still None.
C6_Witness ==
  /\ ret.op = "msun_ab"
  /\ ret.out = IOError
  /\ MSUN_TABLE = None
  /\ loads["msun"] = 2
  /\ stores["msun"] = 0

C10_Frame ==
  [][ /\ \A t \in Tables :
           Access(t) =>
             \A u \in Tables \ {t} :
               /\ CacheOf(u)' = CacheOf(u)
               /\ loads'[u] = loads[u]
               /\ stores'[u] = stores[u]
      /\ ret'.op = "find_filter" =>
           /\ MSUN_TABLE' = MSUN_TABLE
           /\ LAMBDA_EFF_TABLE' = LAMBDA_EFF_TABLE
           /\ loads' = loads
           /\ stores' = stores
      /\ imported' = imported
      /\ Len(FILTERS)' = Len(FILTERS)
    ]_vars

\* lambda_eff has loaded its table while the solar-magnitude table has
\* never been read.
C10_Witness ==
  /\ ret.op = "lambda_eff"
  /\ LAMBDA_EFF_TABLE # None
  /\ stores["lambda_eff"] = 1
  /\ MSUN_TABLE = None
  /\ loads["msun"] = 0

\* What a sequential run returns for self.<p> when the files are as they
\* are now: the error of the load, or the entry of the file's table.
Sequential(self, p) ==
  LET r == loadtxt(FileOf(TableOf(p)))
  IN IF IsError(r) THEN r ELSE float(getitem(r, self.index, ColumnOf(p)))

\* C8 (SpecThreads): with concurrent callers and files that do not change,
\* in every interleaving a finished access holds what a sequential run
\* returns for its filter and property, a cache that has been assigned
\* holds the content of its file, and an access that reaches its indexing
\* statement finds the cache loaded; more than one caller may have loaded
\* and assigned the cache.
C8_RaceIsBenign ==
  /\ \A t \in Threads :
       threads[t].pc = "done" =>
         threads[t].out = Sequential(threads[t].self, threads[t].p)
  /\ \A t \in Threads :
       threads[t].pc = "index" => CacheOf(TableOf(threads[t].p)) # None
  /\ \A tab \in Tables :
       CacheOf(tab) # None => CacheOf(tab) = loadtxt(FileOf(tab))
  /\ \A tab \in Tables :
       stores[tab] > 0 => CacheOf(tab) # None

\* Both callers loaded and assigned the solar-magnitude table, and both
\* hold a value.
C8_Witness ==
  /\ stores["msun"] = 2
  /\ \A t \in Threads :
       /\ threads[t].pc = "done"
       /\ TableOf(threads[t].p) = "msun"
       /\ threads[t].out.kind = "float"

\* C9 as stated: each cache is assigned at most once in the life of the
\* process, concurrent callers included.
C9_WrittenAtMostOnce ==
  \A tab \in Tables : stores[tab] <= 1

\* C9 (SpecThreads), amended: each cache is assigned at most once by each
\* caller, hence at most once when one caller makes all the accesses; it is
\* None exactly as long as no caller has assigned it.
C9_WrittenOncePerCaller ==
  \A tab \in Tables :
    /\ stores[tab] <= Cardinality(called)
    /\ stores[tab] = 0 <=> CacheOf(tab) = None

\* Two callers have each assigned the effective-wavelength cache.
C9_Witness ==
  /\ called = Threads
  /\ stores["lambda_eff"] = 2
  /\ LAMBDA_EFF_TABLE # None
====
